---------------------------- MODULE Spec2Model ----------------------------
(***************************************************************************)
(* A model of src/core/SkBlurEngine.cpp: the pass planner                  *)
(* SkShaderBlurAlgorithm::blur with its render passes, the shader variant  *)
(* selector to_stablekey, and the kernel builders                          *)
(* Compute1DBlurLinearKernel, Compute2DBlurOffsets and Compute2DBlurKernel.*)
(*                                                                         *)
(* Sigmas enter only through SkBlurEngine::SigmaToRadius, so a request is  *)
(* given by its two radii.  Floating point values are exact rationals.     *)
(***************************************************************************)
EXTENDS Integers, Sequences, FiniteSets

VARIABLES
    pc,                   \* position inside blur(): "blur", "evalBlur2D", "passX", "passY", "done"
    radiusX, radiusY,     \* SigmaToRadius of the request's sigma
    srcRect, dstRect,     \* the request's rectangles
    src,                  \* blur()'s local 'src': the image the next pass reads (or Null)
    intermediateSrcRect,
    intermediateDstRect,
    calls,                \* the render passes issued so far, in order
    result,               \* what blur() returned: NotReturned, Null or an image
    keyLog,               \* the two latest to_stablekey calls: [width, baseKey, key]
    lpc,                  \* position inside Compute1DBlurLinearKernel
    linRadius,            \* its 'radius'
    fullKernel,           \* the full kernel of Compute1DBlurKernel, indices 0..2*radius
    kernel, offsets,      \* its local arrays, indices 0..kMaxSamples-1
    lin,                  \* its locals halfSize, halfRadius, lowIndex, index, i
    stored,               \* the indices its tap writes stored to, in order
    fullReads,            \* the fullKernel indices it read
    badRead,              \* whether it read an entry nothing had written
    offsetsAndKernel,     \* its output, kMaxSamples/2 vectors of 4
    opc,                  \* position inside evalBlur2D's two kernel-builder calls
    radii,                \* their 'radius': [width, height]
    kernel2D,             \* the 'kernel' of Compute2DBlurKernel, indices 0..kMaxSamples-1
    offsetView,           \* the 'offsetView' of Compute2DBlurOffsets, 0..2*kMaxSamples-1
    ofs                   \* the locals i, x, y of Compute2DBlurOffsets

blurVars == <<pc, radiusX, radiusY, srcRect, dstRect, src,
              intermediateSrcRect, intermediateDstRect, calls, result>>

keyVars == <<keyLog>>

linVars == <<lpc, linRadius, fullKernel, kernel, offsets, lin, stored, fullReads,
             badRead, offsetsAndKernel>>

gridVars == <<opc, radii, kernel2D, offsetView, ofs>>

vars == <<blurVars, keyVars, linVars, gridVars>>

-----------------------------------------------------------------------------
(* Bounds of the model *)

MaxCoord == 3      \* rectangle edges range over 0..MaxCoord
MaxRadius == 5     \* radii of the planner's requests range over 0..MaxRadius
MaxFreeRadius == 3 \* linear kernels of radius <= MaxFreeRadius take every weight
MaxWeight == 3     \* such a weight is a multiple 1..MaxWeight of a common unit

(* Program constants *)

kMaxSamples == 28

-----------------------------------------------------------------------------
(* Helpers declared in SkBlurEngine.h and SkRect.h *)

KernelWidth(radius) == 2 * radius + 1

LinearKernelWidth(radius) == radius + 1

Max(a, b) == IF a >= b THEN a ELSE b

Min(a, b) == IF a <= b THEN a ELSE b

MakeLTRB(l, t, r, b) == [left |-> l, top |-> t, right |-> r, bottom |-> b]

MakeWH(w, h) == MakeLTRB(0, 0, w, h)

Width(r) == r.right - r.left

Height(r) == r.bottom - r.top

IsEmpty(r) == Width(r) <= 0 \/ Height(r) <= 0

MakeOutset(r, dx, dy) == MakeLTRB(r.left - dx, r.top - dy, r.right + dx, r.bottom + dy)

MakeOffset(r, dx, dy) == MakeLTRB(r.left + dx, r.top + dy, r.right + dx, r.bottom + dy)

\* SkIRect::intersect: false (and the receiver unchanged) when the overlap is empty
Intersect(a, b) ==
    LET tmp == MakeLTRB(Max(a.left, b.left), Max(a.top, b.top),
                        Min(a.right, b.right), Min(a.bottom, b.bottom))
    IN  IF IsEmpty(tmp) THEN [ok |-> FALSE, rect |-> a]
                        ELSE [ok |-> TRUE, rect |-> tmp]

Contains(r, x, y) == r.left <= x /\ x < r.right /\ r.top <= y /\ y < r.bottom

-----------------------------------------------------------------------------
(* Values *)

Null == [null |-> TRUE]

NotReturned == [pending |-> TRUE]

\* An image: its size and the render passes that produced it (none: the source)
Image(w, h, passes) == [w |-> w, h |-> h, passes |-> passes]

\* A stable key is an enumerator of SkKnownRuntimeEffects::StableKey plus an
\* offset: the enumerators' numeric values are declared outside this file.
StableKey(base, n) == [base |-> base, plus |-> n]

SkUNREACHABLE == [unreachable |-> TRUE]

k1DBlurBase == StableKey("k1DBlurBase", 0)

k2DBlurBase == StableKey("k2DBlurBase", 0)

KeyPlus(baseKey, n) == StableKey(baseKey.base, baseKey.plus + n)

-----------------------------------------------------------------------------
(* VariantSelector *)

\* (a selector batching every width on multiples of 4)
to_stablekey_Multiples4(kernelWidth, baseKey) ==
    IF kernelWidth \in 2..kMaxSamples
    THEN KeyPlus(baseKey, (kernelWidth - 1) \div 4)
    ELSE SkUNREACHABLE

to_stablekey(kernelWidth, baseKey) ==
    CASE kernelWidth \in 2..4   -> baseKey
      [] kernelWidth \in 5..8   -> KeyPlus(baseKey, 1)
      [] kernelWidth \in 9..12  -> KeyPlus(baseKey, 2)
      [] kernelWidth \in 13..16 -> KeyPlus(baseKey, 3)
      [] kernelWidth \in 17..20 -> KeyPlus(baseKey, 4)
      [] kernelWidth \in 21..28 -> KeyPlus(baseKey, 5)
      [] OTHER                  -> SkUNREACHABLE

GetLinearBlur1DEffect_FullWidth(radius) ==
    [width |-> KernelWidth(radius),
     key   |-> to_stablekey(KernelWidth(radius), k1DBlurBase)]

\* The argument and the result of the lookup GetLinearBlur1DEffect makes
GetLinearBlur1DEffect(radius) ==
    [width |-> LinearKernelWidth(radius),
     key   |-> to_stablekey(LinearKernelWidth(radius), k1DBlurBase)]

\* The argument and the result of the lookup GetBlur2DEffect makes
GetBlur2DEffect(rX, rY) ==
    LET kernelArea == KernelWidth(rX) * KernelWidth(rY)
    IN  [width |-> kernelArea, key |-> to_stablekey(kernelArea, k2DBlurBase)]

-----------------------------------------------------------------------------
(* RenderExecutor *)

\* renderBlur: makeDevice may fail (deviceOk = FALSE); otherwise the snapshot has
\* dstRect's size
renderBlur(input, pass, dst, deviceOk) ==
    IF ~deviceOk THEN Null
    ELSE Image(Width(dst), Height(dst), Append(input.passes, pass))

\* One entry of the log of render passes
Call(pass, radius, lookup, srcR, dstR, deviceOk) ==
    [pass |-> pass, radius |-> radius, lookup |-> lookup,
     srcRect |-> srcR, dstRect |-> dstR, ok |-> deviceOk]

evalBlur2D(rX, rY, input, srcR, dstR, deviceOk) ==
    [image |-> renderBlur(input, "2D", dstR, deviceOk),
     call  |-> Call("2D", <<rX, rY>>, GetBlur2DEffect(rX, rY), srcR, dstR, deviceOk)]

evalBlur1D(radius, dir, input, srcR, dstR, deviceOk) ==
    [image |-> renderBlur(input, dir, dstR, deviceOk),
     call  |-> Call(dir, radius, GetLinearBlur1DEffect(radius), srcR, dstR, deviceOk)]

-----------------------------------------------------------------------------
(* Floats, as exact rationals [num, den] in lowest terms; den = 0 is NaN *)

RECURSIVE GCD(_, _)
GCD(a, b) == IF b = 0 THEN a ELSE GCD(b, a % b)

Abs(n) == IF n < 0 THEN -n ELSE n

Rat(n, d) ==
    IF d = 0 THEN [num |-> 0, den |-> 0]
    ELSE LET g == GCD(Abs(n), Abs(d))
             sg == IF d < 0 THEN -1 ELSE 1
         IN  [num |-> (sg * n) \div g, den |-> (sg * d) \div g]

Zero == Rat(0, 1)

One == Rat(1, 1)

Half == Rat(1, 2)

FromInt(n) == Rat(n, 1)

RAdd(a, b) == Rat(a.num * b.den + b.num * a.den, a.den * b.den)

RNeg(a) == Rat(-a.num, a.den)

RSub(a, b) == RAdd(a, RNeg(b))

RMul(a, b) == Rat(a.num * b.num, a.den * b.den)

RDiv(a, b) == Rat(a.num * b.den, a.den * b.num)

\* std::floor, as an integer
Floor(a) == a.num \div a.den

-----------------------------------------------------------------------------
(* KernelBuilder: SkShaderBlurAlgorithm::Compute1DBlurLinearKernel *)

\* An array entry nothing has written yet
Uninit == [uninit |-> TRUE]

\* What a read of an unwritten entry may yield
Garbage == {Zero, One, RNeg(One)}

SampleIndices == 0..(kMaxSamples - 1)

\* arr[idx], or g when nothing has written arr[idx] or idx lies past the array
Load(arr, idx, g) ==
    IF idx \in DOMAIN arr /\ arr[idx] # Uninit THEN arr[idx] ELSE g

IsBadLoad(arr, idx) == ~(idx \in DOMAIN arr /\ arr[idx] # Uninit)

\* arr[idx] = v; a store outside the array leaves the array as it is and shows
\* in 'stored'
Store(arr, idx, v) ==
    IF idx \in DOMAIN arr THEN [arr EXCEPT ![idx] = v] ELSE arr

get_new_weight_Swapped(wi, wj) ==
    [new_w |-> RAdd(wi, wj), offset |-> RDiv(wi, RAdd(wi, wj))]

\* The lambda get_new_weight: W' = Wi + Wj, x = Wj / (Wi + Wj)
get_new_weight(wi, wj) ==
    [new_w |-> RAdd(wi, wj), offset |-> RDiv(wj, RAdd(wi, wj))]

CentreIsShared_ByHalfSize(radius) == LinearKernelWidth(radius) % 2 = 1

\* The test 'radius & 1': the centre texel is shared by the two middle samples
CentreIsShared(radius) == radius % 2 = 1

FirstLowIndex_AtCentre(halfRadius) == halfRadius

\* The initial lowIndex
FirstLowIndex(halfRadius) == halfRadius - 1

\* The locals and the centre tap (the branch on 'radius & 1')
LinCentre ==
    /\ lpc = "centre"
    /\ \E g \in Garbage :
         LET halfSize == LinearKernelWidth(linRadius)
             halfRadius == halfSize \div 2
             lowIndex == FirstLowIndex(halfRadius)
             index == linRadius
         IN  IF CentreIsShared(linRadius)
             THEN LET t == get_new_weight(RMul(Load(fullKernel, index, g), Half),
                                          Load(fullKernel, index + 1, g))
                      kernel1 == Store(kernel, halfRadius, t.new_w)
                      offsets1 == Store(offsets, halfRadius, t.offset)
                  IN  /\ kernel' = Store(kernel1, lowIndex, Load(kernel1, halfRadius, g))
                      /\ offsets' = Store(offsets1, lowIndex,
                                          RNeg(Load(offsets1, halfRadius, g)))
                      /\ stored' = stored \o <<halfRadius, lowIndex>>
                      /\ fullReads' = fullReads \cup {index, index + 1}
                      /\ badRead' = (\/ badRead
                                     \/ IsBadLoad(fullKernel, index)
                                     \/ IsBadLoad(fullKernel, index + 1)
                                     \/ IsBadLoad(kernel1, halfRadius)
                                     \/ IsBadLoad(offsets1, halfRadius))
                      /\ lin' = [halfSize |-> halfSize, halfRadius |-> halfRadius,
                                 lowIndex |-> lowIndex - 1, index |-> index + 2,
                                 i |-> halfRadius + 1]
             ELSE /\ kernel' = Store(kernel, halfRadius, Load(fullKernel, index, g))
                  /\ offsets' = Store(offsets, halfRadius, Zero)
                  /\ stored' = Append(stored, halfRadius)
                  /\ fullReads' = fullReads \cup {index}
                  /\ badRead' = (badRead \/ IsBadLoad(fullKernel, index))
                  /\ lin' = [halfSize |-> halfSize, halfRadius |-> halfRadius,
                             lowIndex |-> lowIndex, index |-> index + 1,
                             i |-> halfRadius + 1]
    /\ lpc' = "pairs"
    /\ UNCHANGED <<linRadius, fullKernel, offsetsAndKernel>>
    /\ UNCHANGED <<blurVars, keyVars, gridVars>>

\* One iteration of 'for (int i = halfRadius + 1; i < halfSize; ...)'
LinPair ==
    /\ lpc = "pairs"
    /\ lin.i < lin.halfSize
    /\ \E g \in Garbage :
         LET t == get_new_weight(Load(fullKernel, lin.index, g),
                                 Load(fullKernel, lin.index + 1, g))
             kernel1 == Store(kernel, lin.i, t.new_w)
             offsets1 == Store(offsets, lin.i,
                               RAdd(t.offset, FromInt(lin.index - linRadius)))
         IN  /\ kernel' = Store(kernel1, lin.lowIndex, Load(kernel1, lin.i, g))
             /\ offsets' = Store(offsets1, lin.lowIndex, RNeg(Load(offsets1, lin.i, g)))
             /\ stored' = stored \o <<lin.i, lin.lowIndex>>
             /\ fullReads' = fullReads \cup {lin.index, lin.index + 1}
             /\ badRead' = (\/ badRead
                            \/ IsBadLoad(fullKernel, lin.index)
                            \/ IsBadLoad(fullKernel, lin.index + 1)
                            \/ IsBadLoad(kernel1, lin.i)
                            \/ IsBadLoad(offsets1, lin.i))
    /\ lin' = [lin EXCEPT !.index = @ + 2, !.i = @ + 1, !.lowIndex = @ - 1]
    /\ UNCHANGED <<lpc, linRadius, fullKernel, offsetsAndKernel>>
    /\ UNCHANGED <<blurVars, keyVars, gridVars>>

\* After the loop: zero the rest of 'kernel', repeat the last valid offset, and
\* interleave into the output
LinTail ==
    /\ lpc = "pairs"
    /\ ~(lin.i < lin.halfSize)
    /\ \E g \in Garbage :
         LET kernel1 == [k \in DOMAIN kernel |-> IF k >= lin.halfSize THEN Zero ELSE kernel[k]]
             last == Load(offsets, lin.halfSize - 1, g)
             offsets1 == [k \in DOMAIN offsets |-> IF k >= lin.halfSize THEN last ELSE offsets[k]]
         IN  /\ kernel' = kernel1
             /\ offsets' = offsets1
             /\ offsetsAndKernel' =
                    [v \in 0..((kMaxSamples \div 2) - 1) |->
                        <<Load(offsets1, 2 * v, g), Load(kernel1, 2 * v, g),
                          Load(offsets1, 2 * v + 1, g), Load(kernel1, 2 * v + 1, g)>>]
             /\ badRead' = (\/ badRead
                            \/ IsBadLoad(offsets, lin.halfSize - 1)
                            \/ \E k \in SampleIndices :
                                  IsBadLoad(offsets1, k) \/ IsBadLoad(kernel1, k))
    /\ lpc' = "done"
    /\ UNCHANGED <<linRadius, fullKernel, lin, stored, fullReads>>
    /\ UNCHANGED <<blurVars, keyVars, gridVars>>

-----------------------------------------------------------------------------
(* KernelBuilder: Compute2DBlurKernel and Compute2DBlurOffsets *)

\* The weight exp(-(dx^2/(2 sigmaX^2) + dy^2/(2 sigmaY^2))) of the grid cell at
\* (dx, dy) from the centre, kept as the cell it belongs to; 'scaled' once the
\* normalizing pass has multiplied it by 1/sum
CellWeight(dx, dy, scaled) == [dx |-> dx, dy |-> dy, scaled |-> scaled]

KernelIndex_Transposed(x, y, width, height) == x * height + y

\* The index 'kernel[y * width + x]' of the store in the double loop
KernelIndex(x, y, width, height) == y * width + x

\* Compute2DBlurKernel: the double loop (x outer, y inner; of several stores to
\* one index the last one stays), the normalizing pass over the first
\* kernelSize entries, and the zeroing of the rest
Compute2DBlurKernel(radius) ==
    LET width == KernelWidth(radius.width)
        height == KernelWidth(radius.height)
        kernelSize == width * height
        Stores(k) == { c \in (0..(width - 1)) \X (0..(height - 1)) :
                          KernelIndex(c[1], c[2], width, height) = k }
        LastStore(k) == CHOOSE c \in Stores(k) :
                          \A d \in Stores(k) : d[1] * height + d[2] <= c[1] * height + c[2]
        looped == [k \in SampleIndices |->
                     IF Stores(k) = {} THEN Uninit
                     ELSE CellWeight(LastStore(k)[1] - radius.width,
                                     LastStore(k)[2] - radius.height, FALSE)]
        normalized == [k \in SampleIndices |->
                         IF k < kernelSize /\ looped[k] # Uninit
                         THEN [looped[k] EXCEPT !.scaled = TRUE]
                         ELSE looped[k]]
    IN  [k \in SampleIndices |-> IF k >= kernelSize THEN Zero ELSE normalized[k]]

\* evalBlur2D's call of Compute2DBlurKernel, and the entry of Compute2DBlurOffsets
GridKernel ==
    /\ opc = "kernel"
    /\ kernel2D' = Compute2DBlurKernel(radii)
    /\ ofs' = [i |-> 0, x |-> -radii.width, y |-> -radii.height]
    /\ opc' = IF -radii.height <= radii.height THEN "offsets" ELSE "pad"
    /\ UNCHANGED <<radii, offsetView>>
    /\ UNCHANGED <<blurVars, keyVars, linVars>>

\* One iteration of the inner loop of Compute2DBlurOffsets, with the loop
\* headers that follow it
GridOffset ==
    /\ opc = "offsets"
    /\ offsetView' = Store(Store(offsetView, 2 * ofs.i, FromInt(ofs.x)),
                            2 * ofs.i + 1, FromInt(ofs.y))
    /\ IF ofs.x + 1 <= radii.width
       THEN /\ ofs' = [ofs EXCEPT !.i = @ + 1, !.x = @ + 1]
            /\ opc' = opc
       ELSE /\ ofs' = [i |-> ofs.i + 1, x |-> -radii.width, y |-> ofs.y + 1]
            /\ opc' = IF ofs.y + 1 <= radii.height THEN "offsets" ELSE "pad"
    /\ UNCHANGED <<radii, kernel2D>>
    /\ UNCHANGED <<blurVars, keyVars, linVars>>

LastValidOffset_Unscaled(area) == area - 1

\* lastValidOffset
LastValidOffset(area) == 2 * (area - 1)

\* The padding loop 'for (; i < kMaxSamples; ++i)'
GridPad ==
    /\ opc = "pad"
    /\ \E g \in Garbage :
         LET area == KernelWidth(radii.width) * KernelWidth(radii.height)
             lastValidOffset == LastValidOffset(area)
         IN  offsetView' =
                [n \in DOMAIN offsetView |->
                    IF n \div 2 >= ofs.i /\ n \div 2 < kMaxSamples
                    THEN Load(offsetView, lastValidOffset + (n % 2), g)
                    ELSE offsetView[n]]
    /\ opc' = "done"
    /\ UNCHANGED <<radii, kernel2D, ofs>>
    /\ UNCHANGED <<blurVars, keyVars, linVars>>

-----------------------------------------------------------------------------
(* PassPlanner: SkShaderBlurAlgorithm::blur *)

UseSinglePass2D_NoRadiusTest(rX, rY) ==
    KernelWidth(rX) * KernelWidth(rY) <= kMaxSamples

\* The test that selects the single 2-D pass
UseSinglePass2D(rX, rY) ==
    KernelWidth(rX) * KernelWidth(rY) <= kMaxSamples /\ rX > 0 /\ rY > 0

FirstPassDstRect_NoOutset(dst, srcR, rX, rY) ==
    Intersect(dst, MakeOutset(srcR, rX, rY))

FirstPassDstRect_Unchecked(dst, srcR, rX, rY) ==
    [ok |-> TRUE, rect |-> Intersect(MakeOutset(dst, 0, rY), MakeOutset(srcR, rX, rY)).rect]

\* The X pass's destination when a Y pass follows: [ok, rect]
FirstPassDstRect(dst, srcR, rX, rY) ==
    Intersect(MakeOutset(dst, 0, rY), MakeOutset(srcR, rX, rY))

SecondPassDstRect_NoOffset(dst, firstDst) == dst

\* The Y pass's destination after an X pass that rendered firstDst
SecondPassDstRect(dst, firstDst) ==
    MakeOffset(dst, -firstDst.left, -firstDst.top)

\* blur() up to its first render pass
Plan ==
    /\ pc = "blur"
    /\ UNCHANGED <<radiusX, radiusY, srcRect, dstRect, src, calls>>
    /\ UNCHANGED <<keyVars, linVars, gridVars>>
    /\ IF UseSinglePass2D(radiusX, radiusY)
       THEN /\ pc' = "evalBlur2D"
            /\ UNCHANGED <<intermediateSrcRect, intermediateDstRect, result>>
       ELSE /\ intermediateSrcRect' = srcRect
            /\ IF radiusX > 0
               THEN IF radiusY > 0
                    THEN LET first == FirstPassDstRect(dstRect, srcRect, radiusX, radiusY)
                         IN  IF ~first.ok
                             THEN /\ intermediateDstRect' = MakeOutset(dstRect, 0, radiusY)
                                  /\ result' = Null
                                  /\ pc' = "done"
                             ELSE /\ intermediateDstRect' = first.rect
                                  /\ result' = result
                                  /\ pc' = "passX"
                    ELSE /\ intermediateDstRect' = dstRect
                         /\ result' = result
                         /\ pc' = "passX"
               ELSE /\ intermediateDstRect' = dstRect
                    /\ IF radiusY > 0
                       THEN /\ pc' = "passY"
                            /\ result' = result
                       ELSE /\ pc' = "done"
                            /\ result' = src

\* The single 2-D pass and blur()'s return of its image
PassBlur2D ==
    /\ pc = "evalBlur2D"
    /\ \E deviceOk \in BOOLEAN :
         LET r == evalBlur2D(radiusX, radiusY, src, srcRect, dstRect, deviceOk)
         IN  /\ calls' = Append(calls, r.call)
             /\ src' = r.image
             /\ result' = r.image
    /\ pc' = "done"
    /\ UNCHANGED <<radiusX, radiusY, srcRect, dstRect,
                   intermediateSrcRect, intermediateDstRect>>
    /\ UNCHANGED <<keyVars, linVars, gridVars>>

\* The X pass, the null check after it and the rectangles of the Y pass
PassX ==
    /\ pc = "passX"
    /\ \E deviceOk \in BOOLEAN :
         LET r == evalBlur1D(radiusX, "X", src, srcRect, intermediateDstRect, deviceOk)
         IN  /\ calls' = Append(calls, r.call)
             /\ src' = r.image
             /\ IF r.image = Null
                THEN /\ result' = Null
                     /\ pc' = "done"
                     /\ UNCHANGED <<intermediateSrcRect, intermediateDstRect>>
                ELSE /\ intermediateSrcRect' = MakeWH(r.image.w, r.image.h)
                     /\ intermediateDstRect' =
                            SecondPassDstRect(dstRect, intermediateDstRect)
                     /\ IF radiusY > 0
                        THEN /\ pc' = "passY"
                             /\ result' = result
                        ELSE /\ pc' = "done"
                             /\ result' = r.image
    /\ UNCHANGED <<radiusX, radiusY, srcRect, dstRect>>
    /\ UNCHANGED <<keyVars, linVars, gridVars>>

\* The Y pass and blur()'s return
PassY ==
    /\ pc = "passY"
    /\ \E deviceOk \in BOOLEAN :
         LET r == evalBlur1D(radiusY, "Y", src, intermediateSrcRect,
                             intermediateDstRect, deviceOk)
         IN  /\ calls' = Append(calls, r.call)
             /\ src' = r.image
             /\ result' = r.image
    /\ pc' = "done"
    /\ UNCHANGED <<radiusX, radiusY, srcRect, dstRect,
                   intermediateSrcRect, intermediateDstRect>>
    /\ UNCHANGED <<keyVars, linVars, gridVars>>

-----------------------------------------------------------------------------
(* Requests *)

Coords == 0..MaxCoord

Rects == { MakeLTRB(l, t, r, b) : l \in Coords, t \in Coords, r \in Coords, b \in Coords }

NonEmptyRects == { r \in Rects : ~IsEmpty(r) }

\* The source image spans the whole coordinate range; srcRect is a subset of it
SourceImage == Image(MaxCoord, MaxCoord, <<>>)

Radii == 0..MaxRadius

\* Requests over every radius the linear kernel supports draw their rectangles
\* from the two corners of the coordinate range
AllRadii == 0..(kMaxSamples - 1)

OriginRects == { r \in NonEmptyRects : r.left = 0 /\ r.top = 0 }

CornerRects == { r \in NonEmptyRects : r.right = MaxCoord /\ r.bottom = MaxCoord }

InitBlur(radiusSet, srcRects, dstRects) ==
    /\ pc = "blur"
    /\ radiusX \in radiusSet
    /\ radiusY \in radiusSet
    /\ srcRect \in srcRects
    /\ dstRect \in dstRects
    /\ src = SourceImage
    /\ intermediateSrcRect = srcRect
    /\ intermediateDstRect = dstRect
    /\ calls = <<>>
    /\ result = NotReturned

\* A machine that is not the one under study stays in its idle state
IdleBlur ==
    /\ pc = "idle"
    /\ radiusX = 0 /\ radiusY = 0
    /\ srcRect = MakeWH(0, 0) /\ dstRect = MakeWH(0, 0)
    /\ src = Null
    /\ intermediateSrcRect = MakeWH(0, 0)
    /\ intermediateDstRect = MakeWH(0, 0)
    /\ calls = <<>>
    /\ result = NotReturned

IdleKey == keyLog = <<>>

IdleGrid ==
    /\ opc = "idle"
    /\ radii = [width |-> 0, height |-> 0]
    /\ kernel2D = <<>>
    /\ offsetView = <<>>
    /\ ofs = [i |-> 0, x |-> 0, y |-> 0]

IdleLin ==
    /\ lpc = "idle"
    /\ linRadius = 0
    /\ fullKernel = <<>>
    /\ kernel = <<>> /\ offsets = <<>>
    /\ lin = [halfSize |-> 0, halfRadius |-> 0, lowIndex |-> 0, index |-> 0, i |-> 0]
    /\ stored = <<>>
    /\ fullReads = {}
    /\ badRead = FALSE
    /\ offsetsAndKernel = <<>>

Init == InitBlur(Radii, NonEmptyRects, NonEmptyRects) /\ IdleKey /\ IdleLin /\ IdleGrid

Next == Plan \/ PassBlur2D \/ PassX \/ PassY

Spec == Init /\ [][Next]_vars

InitAllRadii ==
    InitBlur(AllRadii, OriginRects, CornerRects) /\ IdleKey /\ IdleLin /\ IdleGrid

SpecAllRadii == InitAllRadii /\ [][Next]_vars

-----------------------------------------------------------------------------
(* The variant selector on its own: calls with any supported width *)

KeyWidths == 2..kMaxSamples

BaseKeys == {k1DBlurBase, k2DBlurBase}

\* The previous call and the newest one
Latest(log) == IF Len(log) <= 2 THEN log ELSE Tail(log)

SelectVariant ==
    /\ \E kernelWidth \in KeyWidths, baseKey \in BaseKeys :
         keyLog' = Latest(Append(keyLog,
                      [width |-> kernelWidth, baseKey |-> baseKey,
                       key |-> to_stablekey(kernelWidth, baseKey)]))
    /\ UNCHANGED <<blurVars, linVars, gridVars>>

InitKey == IdleBlur /\ IdleKey /\ IdleLin /\ IdleGrid

NextKey == SelectVariant

SpecKey == InitKey /\ [][NextKey]_vars

-----------------------------------------------------------------------------
(* The linear kernel builder on its own *)

RECURSIVE SumOver(_, _, _)
\* h[lo] + ... + h[hi], by halves
SumOver(h, lo, hi) ==
    IF lo > hi THEN 0
    ELSE IF lo = hi THEN h[lo]
    ELSE LET mid == (lo + hi) \div 2
         IN  SumOver(h, lo, mid) + SumOver(h, mid + 1, hi)

\* The normalized symmetric kernel with weight h[d + 1] at distance d from the centre
KernelOf(radius, h) ==
    LET total == 2 * SumOver(h, 1, radius + 1) - h[1]
    IN  [j \in 0..(2 * radius) |-> Rat(h[Abs(j - radius) + 1], total)]

\* A kernel falling linearly from the centre
Tent(radius) == [d \in 1..(radius + 1) |-> radius + 2 - d]

HalfKernels(radius) ==
    IF radius <= MaxFreeRadius
    THEN [1..(radius + 1) -> 1..MaxWeight]
    ELSE {Tent(radius)}

InitLin ==
    /\ IdleBlur /\ IdleKey /\ IdleGrid
    /\ lpc = "centre"
    /\ linRadius \in AllRadii
    /\ \E h \in HalfKernels(linRadius) : fullKernel = KernelOf(linRadius, h)
    /\ kernel = [k \in SampleIndices |-> Uninit]
    /\ offsets = [k \in SampleIndices |-> Uninit]
    /\ lin = [halfSize |-> 0, halfRadius |-> 0, lowIndex |-> 0, index |-> 0, i |-> 0]
    /\ stored = <<>>
    /\ fullReads = {}
    /\ badRead = FALSE
    /\ offsetsAndKernel = <<>>

NextLin == LinCentre \/ LinPair \/ LinTail

SpecLin == InitLin /\ [][NextLin]_vars

-----------------------------------------------------------------------------
(* The 2-D kernel builders on their own: every radius pair whose area fits *)

InitGrid ==
    /\ IdleBlur /\ IdleKey /\ IdleLin
    /\ opc = "kernel"
    /\ radii \in { r \in [width : AllRadii, height : AllRadii] :
                     KernelWidth(r.width) * KernelWidth(r.height) <= kMaxSamples }
    /\ kernel2D = [k \in SampleIndices |-> Uninit]
    /\ offsetView = [n \in 0..(2 * kMaxSamples - 1) |-> Uninit]
    /\ ofs = [i |-> 0, x |-> 0, y |-> 0]

NextGrid == GridKernel \/ GridOffset \/ GridPad

SpecGrid == InitGrid /\ [][NextGrid]_vars

-----------------------------------------------------------------------------
(* Properties of the pass planner *)

Passes == { calls[i].pass : i \in 1..Len(calls) }

Issued(pass) == pass \in Passes

IndexOf(pass) == CHOOSE i \in 1..Len(calls) : calls[i].pass = pass

CallOf(pass) == calls[IndexOf(pass)]

IsImage(v) == v # Null /\ v # NotReturned

kernelArea == (2 * radiusX + 1) * (2 * radiusY + 1)

SinglePassCase == kernelArea <= kMaxSamples /\ radiusX > 0 /\ radiusY > 0

\* dstRect outset by (0, radiusY) and srcRect outset by (radiusX, radiusY)
DstOutset == [left   |-> dstRect.left,           top    |-> dstRect.top - radiusY,
              right  |-> dstRect.right,          bottom |-> dstRect.bottom + radiusY]

SrcBound == [left   |-> srcRect.left - radiusX,  top    |-> srcRect.top - radiusY,
             right  |-> srcRect.right + radiusX, bottom |-> srcRect.bottom + radiusY]

Overlap == [left   |-> Max(DstOutset.left, SrcBound.left),
            top    |-> Max(DstOutset.top, SrcBound.top),
            right  |-> Min(DstOutset.right, SrcBound.right),
            bottom |-> Min(DstOutset.bottom, SrcBound.bottom)]

EmptyOverlap == Overlap.right <= Overlap.left \/ Overlap.bottom <= Overlap.top

\* The separable path with both radii > 0 and nothing for the X pass to render
EmptyPlanCase == ~SinglePassCase /\ radiusX > 0 /\ radiusY > 0 /\ EmptyOverlap

XFailed == Issued("X") /\ ~CallOf("X").ok

\* X before Y, nothing after a 2-D pass, no pass twice
OrderedPasses ==
    /\ Len(calls) <= 2
    /\ Len(calls) = 2 => calls[1].pass = "X" /\ calls[2].pass = "Y"
    /\ Len(calls) = 1 => calls[1].pass \in {"2D", "X", "Y"}

\* C1 as stated: on the separable path the X pass is issued if and only if
\* radiusX > 0 and the Y pass if and only if radiusY > 0, for every rectangle.
C1_AsStated ==
    pc = "done" =>
        /\ (radiusX = 0 /\ radiusY = 0) => calls = <<>> /\ result = SourceImage
        /\ SinglePassCase => Len(calls) = 1 /\ calls[1].pass = "2D"
        /\ ~SinglePassCase =>
              /\ Issued("X") <=> radiusX > 0
              /\ Issued("Y") <=> radiusY > 0
              /\ ~Issued("2D")
        /\ OrderedPasses

\* C1 (amended): blur() returns the source with no render call when both radii
\* are 0; issues exactly the 2-D pass when area <= kMaxSamples and both radii
\* are > 0; and otherwise issues the X pass iff radiusX > 0 and the request did
\* not fail on an empty intersection, then the Y pass iff radiusY > 0 and no X
\* pass was skipped or failed before it; never Y before X, never more than two.
C1_Strategy ==
    /\ OrderedPasses
    /\ pc = "done" =>
        /\ (radiusX = 0 /\ radiusY = 0) => calls = <<>> /\ result = SourceImage
        /\ SinglePassCase => Len(calls) = 1 /\ calls[1].pass = "2D"
        /\ ~SinglePassCase =>
              /\ Issued("X") <=> (radiusX > 0 /\ ~EmptyPlanCase)
              /\ Issued("Y") <=> (radiusY > 0 /\ ~EmptyPlanCase /\ ~XFailed)
              /\ ~Issued("2D")

C1_Witness ==
    /\ pc = "done"
    /\ ~SinglePassCase
    /\ Len(calls) = 2
    /\ IsImage(result)

\* C4: blur() ends with an image or with no result; it has no result exactly
\* when (a) the separable plan with both radii > 0 has an empty intersection,
\* and then no render pass was issued, or (b) a render pass failed to allocate
\* its surface; a failed X pass ends the request, and no pass runs twice.
C4_Failures ==
    /\ (pc = "done") <=> (result # NotReturned)
    /\ OrderedPasses
    /\ \A i \in 1..Len(calls) : ~calls[i].ok => (i = Len(calls) /\ pc = "done")
    /\ pc = "done" =>
        /\ result = Null \/ IsImage(result)
        /\ result = Null <=> (EmptyPlanCase \/ \E i \in 1..Len(calls) : ~calls[i].ok)
        /\ EmptyPlanCase => calls = <<>>
        /\ XFailed => Len(calls) = 1

C4_Witness ==
    /\ pc = "done"
    /\ EmptyPlanCase
    /\ result = Null
    /\ calls = <<>>

\* C2: when the X pass is followed by a Y pass, its destination is exactly
\* dstRect outset by (0, radiusY) intersected with srcRect outset by
\* (radiusX, radiusY); it holds every pixel of the outset dstRect that lies in
\* that bound, so a Y-pass sample that misses the intermediate image lies
\* outside the bound.
C2_FirstPassCovers ==
    (Issued("X") /\ radiusY > 0) =>
        LET first == CallOf("X").dstRect
        IN  /\ first = Overlap
            /\ \A x \in DstOutset.left..(DstOutset.right - 1) :
                 \A y \in DstOutset.top..(DstOutset.bottom - 1) :
                    Contains(SrcBound, x, y) => Contains(first, x, y)
            /\ Issued("Y") =>
                 LET second == CallOf("Y")
                 IN  \A x \in second.dstRect.left..(second.dstRect.right - 1) :
                       \A y \in second.dstRect.top..(second.dstRect.bottom - 1) :
                         \A k \in (-radiusY)..radiusY :
                            ~Contains(second.srcRect, x, y + k) =>
                                ~Contains(SrcBound, x + first.left, y + k + first.top)

\* The intersection clipped the outset dstRect and a Y-pass sample falls outside
\* the intermediate image
C2_Witness ==
    /\ Issued("X") /\ Issued("Y")
    /\ CallOf("X").dstRect # DstOutset
    /\ CallOf("X").dstRect # SrcBound
    /\ \E y \in CallOf("Y").dstRect.top..(CallOf("Y").dstRect.bottom - 1) :
         \E k \in (-radiusY)..radiusY :
            ~Contains(CallOf("Y").srcRect, CallOf("Y").dstRect.left, y + k)

\* C3: after an X pass that produced an image, the Y pass reads the whole X
\* output at origin (0,0) and renders dstRect translated by minus the top-left
\* of the X pass's destination, so a Y destination pixel p stands for original
\* coordinate p + that top-left; and an image returned through at least one
\* render pass has dstRect's width and height.
C3_SecondPassRects ==
    /\ (Issued("X") /\ CallOf("X").ok) =>
          LET first == CallOf("X").dstRect
              local == [left |-> 0, top |-> 0,
                        right  |-> first.right - first.left,
                        bottom |-> first.bottom - first.top]
              moved == [left   |-> dstRect.left - first.left,
                        top    |-> dstRect.top - first.top,
                        right  |-> dstRect.right - first.left,
                        bottom |-> dstRect.bottom - first.top]
          IN  /\ intermediateSrcRect = local
              /\ intermediateDstRect = moved
              /\ radiusY > 0 => (pc = "passY" \/ Issued("Y"))
              /\ Issued("Y") =>
                    /\ CallOf("Y").srcRect = local
                    /\ CallOf("Y").dstRect = moved
                    /\ \A x \in moved.left..(moved.right - 1) :
                         \A y \in moved.top..(moved.bottom - 1) :
                            Contains(dstRect, x + first.left, y + first.top)
    /\ (IsImage(result) /\ result.passes # <<>>) =>
          /\ result.w = dstRect.right - dstRect.left
          /\ result.h = dstRect.bottom - dstRect.top
          /\ result.passes = [i \in 1..Len(calls) |-> calls[i].pass]

\* Both passes ran and the X pass's destination does not start at the origin
C3_Witness ==
    /\ pc = "done"
    /\ Issued("X") /\ Issued("Y")
    /\ CallOf("X").dstRect.left # 0
    /\ CallOf("X").dstRect.top # 0
    /\ CallOf("X").dstRect # dstRect
    /\ IsImage(result)

\* C10: with radius + 1 <= kMaxSamples on each axis, every variant lookup of a
\* blur request has its argument in [2, kMaxSamples] and never reaches the
\* selector's default: the 2-D lookup is made with both radii > 0 and the area
\* in [9, kMaxSamples], a 1-D lookup only for an axis with radius > 0 (width
\* radius + 1 >= 2), and a request with both radii 0 makes no lookup.
C10_LookupsInRange ==
    /\ radiusX + 1 <= kMaxSamples /\ radiusY + 1 <= kMaxSamples
    /\ \A i \in 1..Len(calls) :
         LET c == calls[i]
         IN  /\ c.lookup.width \in 2..kMaxSamples
             /\ c.lookup.key # SkUNREACHABLE
             /\ c.pass = "2D" =>
                   /\ radiusX > 0 /\ radiusY > 0
                   /\ c.lookup.width = kernelArea
                   /\ c.lookup.width \in 9..kMaxSamples
                   /\ c.lookup.key.base = "k2DBlurBase"
             /\ c.pass = "X" =>
                   /\ radiusX > 0
                   /\ c.lookup.width = radiusX + 1
                   /\ c.lookup.key.base = "k1DBlurBase"
             /\ c.pass = "Y" =>
                   /\ radiusY > 0
                   /\ c.lookup.width = radiusY + 1
                   /\ c.lookup.key.base = "k1DBlurBase"
    /\ (radiusX = 0 /\ radiusY = 0) => calls = <<>>

\* A 1-D lookup at the largest supported width and one at the smallest
C10_Witness ==
    /\ Len(calls) = 2
    /\ calls[1].lookup.width = kMaxSamples
    /\ calls[2].lookup.width = 2

-----------------------------------------------------------------------------
(* Properties of the variant selector *)

\* The bucket table of the specification: the key offset of a width
BucketOf(w) ==
    IF w <= 4 THEN 0 ELSE IF w <= 8 THEN 1 ELSE IF w <= 12 THEN 2
    ELSE IF w <= 16 THEN 3 ELSE IF w <= 20 THEN 4 ELSE 5

\* The largest supported width that is given the key of call c
BucketTop(c) ==
    CHOOSE t \in KeyWidths :
        /\ to_stablekey(t, c.baseKey) = c.key
        /\ \A u \in KeyWidths : to_stablekey(u, c.baseKey) = c.key => u <= t

\* C5: on [2, kMaxSamples] to_stablekey always yields a key, baseKey plus the
\* bucket 2-4 -> 0, 5-8 -> 1, 9-12 -> 2, 13-16 -> 3, 17-20 -> 4, 21-28 -> 5;
\* keys do not decrease as the width grows; and the largest width of a call's
\* bucket is at least the width asked for and at most 7 above it.
C5_Buckets ==
    /\ \A i \in 1..Len(keyLog) :
         LET c == keyLog[i]
         IN  /\ c.key # SkUNREACHABLE
             /\ c.key = [base |-> c.baseKey.base, plus |-> c.baseKey.plus + BucketOf(c.width)]
             /\ BucketTop(c) >= c.width
             /\ BucketTop(c) - c.width <= 7
    /\ \A i, j \in 1..Len(keyLog) :
         (keyLog[i].baseKey = keyLog[j].baseKey /\ keyLog[i].width <= keyLog[j].width)
            => keyLog[i].key.plus <= keyLog[j].key.plus

\* Two calls on the same base whose widths lie in the first and the last bucket,
\* the later one 7 below its bucket's largest width
C5_Witness ==
    /\ Len(keyLog) = 2
    /\ keyLog[1].baseKey = keyLog[2].baseKey
    /\ keyLog[1].width = 4
    /\ keyLog[2].width = 21
    /\ keyLog[2].key.plus = keyLog[1].key.plus + 5

-----------------------------------------------------------------------------
(* Properties of the linear kernel builder *)

\* Tap k of the output: component k of the interleaved vectors
TapOffset(k) == offsetsAndKernel[k \div 2][2 * (k % 2) + 1]

TapWeight(k) == offsetsAndKernel[k \div 2][2 * (k % 2) + 2]

\* What a bilinear fetch of tap k takes from full-kernel index j: the texels
\* around the offset, weighted (1 - frac) and frac
Contribution(k, j) ==
    LET o == TapOffset(k)
        below == Floor(o)
        frac == RSub(o, FromInt(below))
    IN  IF j = linRadius + below THEN RMul(TapWeight(k), RSub(One, frac))
        ELSE IF j = linRadius + below + 1 THEN RMul(TapWeight(k), frac)
        ELSE Zero

\* The taps that take something from full-kernel index j
Contributors(j) == { k \in SampleIndices : Contribution(k, j) # Zero }

RECURSIVE ContributionSum(_, _)
\* The sum of the contributions of the taps in K to full-kernel index j
ContributionSum(K, j) ==
    IF K = {} THEN Zero
    ELSE LET k == CHOOSE x \in K : TRUE
         IN  RAdd(Contribution(k, j), ContributionSum(K \ {k}, j))

\* What all the taps together take from full-kernel index j
Expanded(j) == ContributionSum(Contributors(j), j)

RECURSIVE WeightSum(_, _)
\* The sum of the weights of taps lo..hi, by halves
WeightSum(lo, hi) ==
    IF lo = hi THEN TapWeight(lo)
    ELSE LET mid == (lo + hi) \div 2
         IN  RAdd(WeightSum(lo, mid), WeightSum(mid + 1, hi))

RECURSIVE FullSum(_, _)
\* The sum of the full kernel's entries lo..hi, by halves
FullSum(lo, hi) ==
    IF lo = hi THEN fullKernel[lo]
    ELSE LET mid == (lo + hi) \div 2
         IN  RAdd(FullSum(lo, mid), FullSum(mid + 1, hi))

\* C6: expanding every emitted tap into the two texels around its offset gives
\* back the full kernel; each full-kernel index feeds exactly one tap, but the
\* centre index for odd radius feeds the two middle taps with half its weight
\* each; the emitted weights sum to the full kernel's sum, and no full-kernel
\* index outside [0, 2*radius] is read.
C6_RoundTrip ==
    /\ fullReads \subseteq 0..(2 * linRadius)
    /\ lpc = "done" =>
        /\ \A j \in 0..(2 * linRadius) :
              /\ Expanded(j) = fullKernel[j]
              /\ (j # linRadius \/ linRadius % 2 = 0) => Cardinality(Contributors(j)) = 1
              /\ (j = linRadius /\ linRadius % 2 = 1) =>
                    /\ Cardinality(Contributors(j)) = 2
                    /\ \A k \in Contributors(j) :
                          Contribution(k, j) = RMul(fullKernel[j], Half)
        /\ \A j \in ((-linRadius) - 2)..(-1) \cup (2 * linRadius + 1)..(3 * linRadius + 2) :
              Contributors(j) = {}
        /\ WeightSum(0, kMaxSamples - 1) = FullSum(0, 2 * linRadius)
        /\ WeightSum(0, kMaxSamples - 1) = One

\* A finished kernel of odd radius whose weights are not all equal
C6_Witness ==
    /\ lpc = "done"
    /\ linRadius = 3
    /\ fullKernel[3] # fullKernel[4]
    /\ fullKernel[5] # fullKernel[6]
    /\ Expanded(5) = fullKernel[5]

Occurrences(seq, x) == Cardinality({ n \in 1..Len(seq) : seq[n] = x })

\* C7: output entries 0..radius are each stored exactly once, nothing is stored
\* below 0 or above radius and nothing is read before it is written; entry i and
\* entry radius-i have equal weight and negated offset; entries radius+1..27
\* have weight 0 and the offset of entry radius; for radius 0 the one valid tap
\* has the whole kernel's weight, 1.0, and offset 0.
C7_ValidTaps ==
    /\ ~badRead
    /\ \A n \in 1..Len(stored) : stored[n] \in 0..linRadius
    /\ \A x \in 0..linRadius : Occurrences(stored, x) <= 1
    /\ lpc = "done" =>
        /\ \A x \in 0..linRadius : Occurrences(stored, x) = 1
        /\ DOMAIN offsetsAndKernel = 0..((kMaxSamples \div 2) - 1)
        /\ \A i \in 0..linRadius :
              /\ TapWeight(i) = TapWeight(linRadius - i)
              /\ TapOffset(i) = RNeg(TapOffset(linRadius - i))
              /\ TapWeight(i).num > 0
        /\ \A k \in (linRadius + 1)..(kMaxSamples - 1) :
              /\ TapWeight(k) = Zero
              /\ TapOffset(k) = TapOffset(linRadius)
        /\ linRadius = 0 => (TapWeight(0) = One /\ TapOffset(0) = Zero)

\* The largest supported radius has run: all kMaxSamples entries are valid taps
C7_Witness ==
    /\ lpc = "done"
    /\ linRadius = kMaxSamples - 1
    /\ Len(stored) = kMaxSamples
    /\ TapWeight(0) = TapWeight(kMaxSamples - 1)

halfRadiusOf(radius) == (radius + 1) \div 2

\* The centre weight is halved and merged with its neighbour as a matched pair
HalvedCentre ==
    /\ linRadius + 1 \in DOMAIN fullKernel
    /\ halfRadiusOf(linRadius) >= 1
    /\ LET centre == fullKernel[linRadius]
           next == fullKernel[linRadius + 1]
           w == RAdd(RMul(centre, Half), next)
       IN  /\ TapWeight(halfRadiusOf(linRadius)) = w
           /\ TapOffset(halfRadiusOf(linRadius)) = RDiv(next, w)
           /\ TapWeight(halfRadiusOf(linRadius) - 1) = w
           /\ TapOffset(halfRadiusOf(linRadius) - 1) = RNeg(RDiv(next, w))

\* The centre tap is sampled directly with offset 0
DirectCentre ==
    /\ TapWeight(halfRadiusOf(linRadius)) = fullKernel[linRadius]
    /\ TapOffset(halfRadiusOf(linRadius)) = Zero

\* C9 as stated: the centre tap goes by the parity of the emitted tap count
\* radius + 1: odd gives the halved, merged pair, even the direct centre tap.
C9_AsStated ==
    lpc = "done" =>
        /\ (linRadius + 1) % 2 = 1 => HalvedCentre
        /\ (linRadius + 1) % 2 = 0 => DirectCentre

\* C9 (amended): the centre tap goes by the parity of the radius: for odd
\* radius (an even tap count radius + 1) the centre weight is halved and merged
\* with its neighbour as a matched pair; for even radius (an odd tap count) the
\* centre tap is sampled directly with offset 0.
C9_CentreByRadiusParity ==
    lpc = "done" =>
        /\ linRadius % 2 = 1 => (HalvedCentre /\ ~DirectCentre)
        /\ linRadius % 2 = 0 => (DirectCentre /\ ~HalvedCentre)

\* An odd radius has run and its two middle taps share the centre weight
C9_Witness ==
    /\ lpc = "done"
    /\ linRadius = 3
    /\ HalvedCentre

-----------------------------------------------------------------------------
(* Properties of the 2-D kernel builders *)

gridWidth == 2 * radii.width + 1

gridArea == (2 * radii.width + 1) * (2 * radii.height + 1)

\* Entry k of the offset grid: the pair stored at 2k and 2k + 1
OffsetEntry(k) == <<offsetView[2 * k], offsetView[2 * k + 1]>>

\* The offset pair (x, y) as floats
Pair(x, y) == <<[num |-> x, den |-> 1], [num |-> y, den |-> 1]>>

\* C8: the offset grid is row-major: entry k < area is
\* (k mod (2*radiusX+1) - radiusX, k div (2*radiusX+1) - radiusY), the cell
\* whose weight Compute2DBlurKernel keeps at index k; every entry from area to
\* kMaxSamples - 1 is the last valid entry (radiusX, radiusY); none is unwritten.
C8_OffsetGrid ==
    /\ opc = "offsets" =>
          \A k \in 0..(ofs.i - 1) :
             OffsetEntry(k) = Pair((k % gridWidth) - radii.width, (k \div gridWidth) - radii.height)
    /\ opc \in {"pad", "done"} => ofs.i = gridArea
    /\ opc = "done" =>
        /\ gridArea <= kMaxSamples
        /\ \A k \in 0..(gridArea - 1) :
              /\ OffsetEntry(k) =
                    Pair((k % gridWidth) - radii.width, (k \div gridWidth) - radii.height)
              /\ kernel2D[k] = [dx |-> OffsetEntry(k)[1].num, dy |-> OffsetEntry(k)[2].num,
                                scaled |-> TRUE]
        /\ \A k \in gridArea..(kMaxSamples - 1) :
              /\ OffsetEntry(k) = Pair(radii.width, radii.height)
              /\ OffsetEntry(k) = OffsetEntry(gridArea - 1)
              /\ kernel2D[k] = Zero
        /\ \A n \in DOMAIN offsetView : offsetView[n] # Uninit

\* A grid that is not square and leaves entries to pad
C8_Witness ==
    /\ opc = "done"
    /\ radii.width = 1
    /\ radii.height = 3
    /\ OffsetEntry(kMaxSamples - 1) = Pair(1, 3)
    /\ OffsetEntry(4) = Pair(0, -2)

=============================================================================
